---------------------------- MODULE Spec2Model ----------------------------
(***************************************************************************)
(* Model of the MetaMesh file-info plugin.                                 *)
(*                                                                         *)
(* Two revisions of the task processor are in the repository:              *)
(*   "plugin"  src/src/plugin.ts      local filesystem access, own         *)
(*             extension table, one PATCH (mergeMetadata) per task;        *)
(*   "legacy"  src/unnamed/part_003   WebDAV or filesystem access chosen   *)
(*             at module load, FileType library, one PUT (setProperty)     *)
(*             per field.                                                  *)
(* A behaviour fixes the revision that is loaded, the access variant and   *)
(* the request of each task in its first state; every await of process()   *)
(* is one action whose I/O result is chosen nondeterministically.          *)
(*                                                                         *)
(* Specifications:                                                         *)
(*   Spec           process() called directly, one task, with a clock      *)
(*   SpecClient     the MetaCoreClient methods on their own                *)
(*   SpecShell      the server of src/src/index.ts, one POST /process      *)
(*   SpecShellFair  the /process route under fair scheduling               *)
(*   SpecTwo        two accepted tasks of plugin.ts interleaved            *)
(*   SpecUrl        WebDAVClient.toWebDAVUrl on its own                    *)
(***************************************************************************)
EXTENDS Integers, Sequences, FiniteSets, TLC

VARIABLES
    revision,          \* which plugin module is loaded: "plugin" | "legacy"
    webdavClient,      \* part_003:30  TRUE iff createWebDAVClient() returned a client
    mimeTypeMappings,  \* part_003:61  the FileType library's private MIME table
    now,               \* the reading of Date.now()
    live,              \* the tasks process() was called for
    tk,                \* per task: the locals and the position of process()
    sink,              \* HTTP requests issued to meta-core, in order
    client,            \* calls made on a MetaCoreClient outside process()
    server,            \* index.ts: ready, pluginConfig, the manifest object
                       \* and the reply to each POST /process
    dav                \* a WebDAVClient on its own: its baseUrl and the URLs
                       \* toWebDAVUrl returned

vars ==
    <<revision, webdavClient, mimeTypeMappings, now, live, tk, sink, client,
      server, dav>>

-----------------------------------------------------------------------------
(* Bounds of the model *)

MaxClock == 2
MaxCalls == 2

TaskIds == {1, 2}

-----------------------------------------------------------------------------
(* JavaScript values.  Strings are TLA+ strings wrapped with their type so *)
(* that a lookup which yields undefined, a function or an object stays     *)
(* comparable with one that yields a string.                               *)

Str(s) == [type |-> "string", val |-> s]
undefined == [type |-> "undefined", val |-> ""]
null == [type |-> "null", val |-> ""]
false == [type |-> "boolean", val |-> "false"]
ObjectConstructor == [type |-> "function", val |-> "Object"]
ObjectPrototype == [type |-> "object", val |-> "Object.prototype"]

\* ToBoolean of the values above
Truthy(v) ==
    CASE v.type = "undefined" -> FALSE
      [] v.type = "null"      -> FALSE
      [] v.type = "boolean"   -> v.val = "true"
      [] v.type = "string"    -> v.val # ""
      [] OTHER                -> TRUE

\* a || b
Or(a, b) == IF Truthy(a) THEN a ELSE b

-----------------------------------------------------------------------------
(* String helpers *)

Char(s, i) == SubSeq(s, i, i)

\* F(x) with x evaluated once, before F uses it
Strict(F(_), x) == CHOOSE r \in {F(v) : v \in {x}} : TRUE

UpperCase == "ABCDEFGHIJKLMNOPQRSTUVWXYZ"
LowerCase == "abcdefghijklmnopqrstuvwxyz"

ToLowerChar(c) ==
    IF \E i \in 1..26 : Char(UpperCase, i) = c
    THEN Char(LowerCase, CHOOSE i \in 1..26 : Char(UpperCase, i) = c)
    ELSE c

RECURSIVE toLowerCase(_)
toLowerCase(s) ==
    IF Len(s) = 0 THEN "" ELSE ToLowerChar(Head(s)) \o toLowerCase(Tail(s))

\* String.prototype.lastIndexOf, 1-based, 0 when c does not occur
LastIndexOf(s, c) ==
    LET hits == {i \in 1..Len(s) : Char(s, i) = c}
    IN  IF hits = {} THEN 0 ELSE CHOOSE i \in hits : \A j \in hits : j <= i

\* the path without its trailing slashes
RECURSIVE StripTrailingSlashes(_)
StripTrailingSlashes(p) ==
    IF Len(p) > 1 /\ Char(p, Len(p)) = "/"
    THEN StripTrailingSlashes(SubSeq(p, 1, Len(p) - 1))
    ELSE p

\* path.basename (posix)
basename(p) ==
    LET Base(q) == IF q = "/" THEN ""
                   ELSE SubSeq(q, LastIndexOf(q, "/") + 1, Len(q))
    IN  Strict(Base, StripTrailingSlashes(p))

\* path.extname (posix): from the last dot of the basename, "" when there is
\* none or when the basename starts with its only dot
extname(p) ==
    LET Ext(b) == IF LastIndexOf(b, ".") <= 1 \/ b = ".." THEN ""
                  ELSE SubSeq(b, LastIndexOf(b, "."), Len(b))
    IN  Strict(Ext, basename(p))

\* extname(filePath).slice(1).toLowerCase()
ExtensionOf(filePath) ==
    LET Lower(e) == toLowerCase(SubSeq(e, 2, Len(e)))
    IN  Strict(Lower, extname(filePath))


\* String(n) of a non-negative integer
String(n) == ToString(n)

DigitValue(c) == CHOOSE d \in 0..9 : ToString(d) = c

\* parseInt(s, 10) of a string of decimal digits
RECURSIVE parseInt(_)
parseInt(s) ==
    IF Len(s) = 0 THEN 0
    ELSE 10 * parseInt(SubSeq(s, 1, Len(s) - 1)) + DigitValue(Char(s, Len(s)))

-----------------------------------------------------------------------------
(* Completions of a call: it returns a value or throws an error *)

Return(v) == [kind |-> "return", value |-> v, error |-> undefined]
Throw(e)  == [kind |-> "throw", value |-> undefined, error |-> e]

\* new Error(message); every value thrown in the model is an Error
Error(message) == [instanceofError |-> TRUE, message |-> message]

\* error instanceof Error ? error.message : String(error)
ErrorMessage(error) ==
    IF error.instanceofError THEN error.message
    ELSE "[object Object]"

-----------------------------------------------------------------------------
(* Type Classifier of src/src/plugin.ts *)

VideoExtensions ==
    {"mp4", "mkv", "webm", "avi", "mov", "wmv", "flv", "m4v", "mpg", "mpeg",
     "3gp", "3g2", "f4v", "m2ts", "mts", "ts", "vob", "ogm", "divx", "xvid"}
AudioExtensions == {"mp3", "wav", "flac", "aac", "ogg", "m4a"}
DocumentExtensions ==
    {"pdf", "doc", "docx", "ppt", "pptx", "xls", "xlsx", "txt", "rtf",
     "jpg", "jpeg", "png", "gif", "bmp", "tif", "tiff", "svg", "webp"}
ArchiveExtensions == {"zip", "rar", "7z", "tar", "gz", "bz2", "xz"}
SubtitleExtensions == {"srt", "sub", "sbv", "vtt"}
TorrentExtensions == {"torrent"}

\* the keys written in the EXTENSION_MAPPINGS literal
MappingKeys ==
    VideoExtensions \cup AudioExtensions \cup DocumentExtensions
        \cup ArchiveExtensions \cup SubtitleExtensions \cup TorrentExtensions

\* the documented category of a key of the table
DocumentedCategory(key) ==
    CASE key \in VideoExtensions    -> "video"
      [] key \in AudioExtensions    -> "audio"
      [] key \in DocumentExtensions -> "document"
      [] key \in ArchiveExtensions  -> "archive"
      [] key \in SubtitleExtensions -> "subtitle"
      [] key \in TorrentExtensions  -> "torrent"

\* the category strings of the FileFacts
Categories ==
    {"video", "audio", "document", "subtitle", "torrent", "archive", "other",
     "undefined"}

\* What a property read finds on Object.prototype, which the object literal
\* EXTENSION_MAPPINGS inherits from.
ObjectPrototypeProperty(key) ==
    CASE key = "constructor" -> ObjectConstructor
      [] key = "__proto__"   -> ObjectPrototype
      [] key \in {"toString", "valueOf", "hasOwnProperty", "isPrototypeOf",
                  "propertyIsEnumerable", "toLocaleString"}
                             -> [type |-> "function", val |-> key]
      [] OTHER               -> undefined

\* EXTENSION_MAPPINGS[key]: an own property, else an inherited one, else
\* undefined
EXTENSION_MAPPINGS(key) ==
    IF key \in MappingKeys
    THEN Str(DocumentedCategory(key))
    ELSE ObjectPrototypeProperty(key)

getFileTypeFromExtension(ext) ==
    LET Lookup(key) == Or(EXTENSION_MAPPINGS(key), Str("other"))
    IN  IF ext = "" THEN Str("undefined")
        ELSE Strict(Lookup, toLowerCase(ext))

\* lookup() of the mime-types package for the extensions of the model: the
\* entry of mime-db, false when there is none
mimeTypeLookup(extension) ==
    CASE extension = "mkv" -> Str("video/x-matroska")
      [] extension = "txt" -> Str("text/plain")
      [] extension = "png" -> Str("image/png")
      [] extension = "xyz" -> Str("chemical/x-xyz")
      [] OTHER             -> false

OctetStream == "application/octet-stream"

\* FileType.getFileTypeFromExtension of @metazla/filename-tools, which takes
\* a path; plugin.ts line 62 states its table matches that library's
FileType_getFileTypeFromExtension(filePath) ==
    LET Category(ext) ==
          IF ext = "" THEN Str("undefined")
          ELSE IF ext \in MappingKeys THEN Str(DocumentedCategory(ext))
          ELSE Str("other")
    IN  Strict(Category, ExtensionOf(filePath))

-----------------------------------------------------------------------------
(* Metadata Sink client: class MetaCoreClient *)

SinkTimeoutMs == 5000

\* what fetch() can do: a response with a status, or a rejection
FetchOutcomes ==
    {[kind |-> "response", status |-> st, error |-> ""] : st \in {200, 500}}
    \cup {[kind |-> "throw", status |-> 0, error |-> e] :
              e \in {"ECONNREFUSED", "TimeoutError"}}

\* the messages of the errors a sink request can end with
SinkErrors == {"ECONNREFUSED", "TimeoutError", "500"}

\* a body-less request
NoBody == [k \in {} |-> undefined]

\* JSON.stringify of an object of JS values: properties whose value is
\* undefined or a function are left out
JSONStringify(obj) ==
    [k \in {j \in DOMAIN obj : obj[j].type \notin {"undefined", "function"}}
        |-> obj[k]]

\* safeFetch without its catch: a rejection of fetch propagates
safeFetch_rethrows(url, options, outcome) ==
    [requests |-> << [method |-> options.method, url |-> url,
                      body |-> options.body, timeout |-> SinkTimeoutMs] >>,
     completion |-> IF outcome.kind = "throw" THEN Throw(Error(outcome.error))
                    ELSE Return(outcome)]

\* safeFetch that fetches a second time after a rejection
safeFetch_retries(url, options, outcome) ==
    LET request == [method |-> options.method, url |-> url,
                    body |-> options.body, timeout |-> SinkTimeoutMs]
    IN  [requests |-> IF outcome.kind = "throw" THEN <<request, request>>
                      ELSE <<request>>,
         completion |-> IF outcome.kind = "throw" THEN Return(null)
                        ELSE Return(outcome)]

\* safeFetch: one fetch with a 5 s abort signal; a rejection becomes null
safeFetch(url, options, outcome) ==
    [requests |-> << [method |-> options.method, url |-> url,
                      body |-> options.body, timeout |-> SinkTimeoutMs] >>,
     completion |-> IF outcome.kind = "throw" THEN Return(null)
                    ELSE Return(outcome)]

\* a write method awaits safeFetch and ignores the response
IgnoreResponse(fetched) ==
    [requests |-> fetched.requests,
     completion |-> IF fetched.completion.kind = "throw"
                    THEN fetched.completion
                    ELSE Return(undefined)]

setProperty(baseUrl, hashId, key, value, outcome) ==
    IgnoreResponse(safeFetch(baseUrl \o "/meta/" \o hashId \o "/" \o key,
                             [method |-> "PUT",
                              body |-> JSONStringify([value |-> Str(value)])],
                             outcome))

mergeMetadata(baseUrl, hashId, metadata, outcome) ==
    IgnoreResponse(safeFetch(baseUrl \o "/meta/" \o hashId,
                             [method |-> "PATCH",
                              body |-> JSONStringify(metadata)],
                             outcome))

deleteProperty(baseUrl, hashId, key, outcome) ==
    IgnoreResponse(safeFetch(baseUrl \o "/meta/" \o hashId \o "/" \o key,
                             [method |-> "DELETE", body |-> NoBody],
                             outcome))

addToSet(baseUrl, hashId, key, value, outcome) ==
    IgnoreResponse(safeFetch(baseUrl \o "/meta/" \o hashId \o "/_add/" \o key,
                             [method |-> "POST",
                              body |-> JSONStringify([value |-> Str(value)])],
                             outcome))

-----------------------------------------------------------------------------
(* Inputs: the requests, and what the file system, the WebDAV server, the   *)
(* sniffing library and the callback can answer                             *)

Paths ==
    {"/files/watch/movie.mkv", "/tmp/readme.txt", "/tmp/CLIP.MKV",
     "/tmp/notes.xyz", "/tmp/noext", "/tmp/a.constructor"}

Sizes == {0, 1234}

\* the MIME types the magic-byte detection can report
SniffMimes == {"image/png"}

\* the tables the FileType library may hold in mimeTypeMappings; a missing
\* table reads as undefined for every key (the ?. of part_003:61)
MimeTables ==
    [SniffMimes -> {undefined, Str("undefined"), Str("document")}]

NoMimeTable == [m \in SniffMimes |-> undefined]

RequestOf(t, filePath) ==
    [taskId |-> "task-" \o ToString(t),
     cid |-> "cid-" \o ToString(t),
     filePath |-> filePath,
     callbackUrl |-> "http://core/callback",
     metaCoreUrl |-> "http://meta-core:900" \o ToString(t)]

NoRequest ==
    [taskId |-> "", cid |-> "", filePath |-> "", callbackUrl |-> "",
     metaCoreUrl |-> ""]

\* the byte length of the file a stat was made of, kept for the properties
FileLength(completion) ==
    IF completion.kind = "return" THEN completion.value.size ELSE 0

\* the task after a stat of a file of this length
StatOf(task, length) == [task EXCEPT !.fileLength = length]

\* fs stat(filePath): the size, or ENOENT
FsStatOutcomes(filePath) ==
    {Return([size |-> n]) : n \in Sizes}
    \cup {Throw(Error("ENOENT: no such file or directory, stat '"
                      \o filePath \o "'"))}

\* fileTypeFromFile(filePath): a detected type, nothing, or a read error
FileTypeFromFileOutcomes(filePath) ==
    {Return(Str(m)) : m \in SniffMimes}
    \cup {Return(undefined)}
    \cup {Throw(Error("EACCES: permission denied, open '" \o filePath \o "'"))}

\* what the caller's sendCallback can do
SendCallbackOutcomes ==
    {Return(undefined), Throw(Error("callback failed"))}

\* JSON.stringify of a callback payload
PayloadJSON(payload) ==
    IF "metadata" \in DOMAIN payload
    THEN [payload EXCEPT !.metadata = JSONStringify(@)]
    ELSE payload

\* the sendCallback of index.ts that rethrows what fetch rejected with
ShellSendCallback_rethrows(request, payload, outcome) ==
    [posts |-> << [method |-> "POST", url |-> request.callbackUrl,
                   body |-> PayloadJSON(payload),
                   logged |-> IF outcome.kind = "throw" THEN outcome.error
                              ELSE ""] >>,
     completion |-> IF outcome.kind = "throw" THEN Throw(Error(outcome.error))
                    ELSE Return(undefined)]

\* index.ts:72-82, the sendCallback the dispatch shell passes: one POST of
\* the payload to callbackUrl; a rejection of fetch is logged and the
\* response is not looked at
ShellSendCallback(request, payload, outcome) ==
    [posts |-> << [method |-> "POST", url |-> request.callbackUrl,
                   body |-> PayloadJSON(payload),
                   logged |-> IF outcome.kind = "throw" THEN outcome.error
                              ELSE ""] >>,
     completion |-> Return(undefined)]

\* sendCallback(payload) as the task sees it: the shell's closure when the
\* shell started the task, else whatever the caller passed
SendCallback(task, payload) ==
    IF task.shell
    THEN {ShellSendCallback(task.request, payload, outcome) :
             outcome \in FetchOutcomes}
    ELSE {[posts |-> << >>, completion |-> c] : c \in SendCallbackOutcomes}

-----------------------------------------------------------------------------
(* process() of src/src/plugin.ts, between two awaits *)

IdleTask ==
    [pc |-> "idle", request |-> NoRequest, startTime |-> 0,
     statResult |-> "none", size |-> 0,
     fileName |-> "", extension |-> "",
     fileType |-> undefined, mimeType |-> undefined,
     sniffs |-> << >>,
     metadata |-> NoBody, setKey |-> 0,
     duration |-> 0, error |-> Error(""),
     callbacks |-> << >>, sinkFailures |-> {},
     promise |-> "pending",
     fileLength |-> 0, shell |-> FALSE, posts |-> << >>,
     emittedAt |-> << >>, threw |-> << >>]

NewTask(request) == [IdleTask EXCEPT !.pc = "start", !.request = request]

\* what a sniffing attempt found, kept for the properties
SniffRecord(completion) ==
    [failed |-> completion.kind = "throw",
     mime |-> IF completion.kind = "return" THEN completion.value
              ELSE undefined]

\* how a sink request ended, kept for the properties
SinkFailure(outcome) ==
    IF outcome.kind = "throw" THEN {outcome.error}
    ELSE IF outcome.status \notin 200..299 THEN {ToString(outcome.status)}
    ELSE {}

SinkRequests(t, requests) ==
    [i \in 1..Len(requests) |->
        [task |-> t, method |-> requests[i].method, url |-> requests[i].url,
         body |-> requests[i].body, timeout |-> requests[i].timeout]]

\* a process() that picks the access variant per task from the stored config
Started_followsConfig(task, clock) ==
    [task EXCEPT
       !.startTime = clock,
       !.fileName = IF revision = "legacy"
                    THEN basename(task.request.filePath) ELSE "",
       !.extension = IF revision = "legacy"
                     THEN ExtensionOf(task.request.filePath) ELSE "",
       !.pc = IF revision = "plugin" THEN "stat"
              ELSE IF DOMAIN server.pluginConfig # {} THEN "w_stat"
              ELSE "f_type"]

\* lines 101-105: the clock is read and the client is built; the legacy
\* revision parses the names here (part_003:115-127)
Started(task, clock) ==
    [task EXCEPT
       !.startTime = clock,
       !.fileName = IF revision = "legacy"
                    THEN basename(task.request.filePath) ELSE "",
       !.extension = IF revision = "legacy"
                     THEN ExtensionOf(task.request.filePath) ELSE "",
       !.pc = IF revision = "plugin" THEN "stat"
              ELSE IF webdavClient THEN "w_stat" ELSE "f_type"]

\* process() called by a caller other than the server
Start(t) ==
    /\ t \in live
    /\ tk[t].pc = "start"
    /\ tk' = [tk EXCEPT ![t] = Started(@, now)]
    /\ UNCHANGED <<server, dav, revision, webdavClient, mimeTypeMappings,
                   now, live, sink, client>>

\* a catch block that ends the task without reporting
Caught_silent(task, error) ==
    [task EXCEPT !.pc = "done", !.error = error, !.promise = "resolved"]

\* a process() without its catch block: the error rejects the promise
Caught_rethrows(task, error) ==
    [task EXCEPT !.pc = "done", !.error = error, !.promise = "rejected"]

\* control passes to the catch block with the error
Caught(task, error) == [task EXCEPT !.pc = "catch", !.error = error]

\* stat whose error is swallowed: the task goes on with size 0
AfterStat_ignoresError(task, completion) ==
    [task EXCEPT
       !.statResult = IF completion.kind = "throw" THEN "failed" ELSE "ok",
       !.size = IF completion.kind = "throw" THEN 0
                ELSE completion.value.size,
       !.fileName = basename(task.request.filePath),
       !.extension = ExtensionOf(task.request.filePath),
       !.fileType =
           getFileTypeFromExtension(ExtensionOf(task.request.filePath)),
       !.pc = "sniff"]

\* lines 107-115: stat, then name, extension and category
AfterStat(task, completion) ==
    IF completion.kind = "throw"
    THEN Caught([task EXCEPT !.statResult = "failed"], completion.error)
    ELSE [task EXCEPT
            !.statResult = "ok",
            !.size = completion.value.size,
            !.fileName = basename(task.request.filePath),
            !.extension = ExtensionOf(task.request.filePath),
            !.fileType =
                getFileTypeFromExtension(ExtensionOf(task.request.filePath)),
            !.pc = "sniff"]

Stat(t) ==
    /\ t \in live
    /\ tk[t].pc = "stat"
    /\ \E completion \in FsStatOutcomes(tk[t].request.filePath) :
          tk' = [tk EXCEPT ![t] =
                   StatOf(AfterStat(tk[t], completion),
                          FileLength(completion))]
    /\ UNCHANGED <<server, dav, revision, webdavClient, mimeTypeMappings,
                   now, live, sink, client>>

\* lines 117-131: the detected type if any, else the lookup by extension,
\* else the sentinel
ResolveMimeType(completion, extension) ==
    LET detected == IF completion.kind = "return" THEN completion.value
                    ELSE undefined
        mimeType == IF Truthy(detected) THEN detected ELSE undefined
    IN  IF ~Truthy(mimeType)
        THEN Or(mimeTypeLookup(extension), Str(OctetStream))
        ELSE mimeType

\* lines 133-141
Metadata(task, mimeType) ==
    [fileType |-> task.fileType,
     mimeType |-> mimeType,
     sizeByte |-> Str(String(task.size)),
     fileName |-> Str(task.fileName),
     extension |-> Str(task.extension),
     filePath |-> Str(task.request.filePath)]

AfterSniff(task, completion) ==
    LET mimeType == ResolveMimeType(completion, task.extension)
    IN  [task EXCEPT
           !.sniffs = Append(@, SniffRecord(completion)),
           !.mimeType = mimeType,
           !.metadata = Metadata(task, mimeType),
           !.pc = "merge"]

Sniff(t) ==
    /\ t \in live
    /\ tk[t].pc = "sniff"
    /\ \E completion \in FileTypeFromFileOutcomes(tk[t].request.filePath) :
          tk' = [tk EXCEPT ![t] = AfterSniff(@, completion)]
    /\ UNCHANGED <<server, dav, revision, webdavClient, mimeTypeMappings,
                   now, live, sink, client>>

\* lines 143-147: the sink write returned; the duration is taken
AfterSinkWrite(task, written, outcome, clock) ==
    IF written.completion.kind = "throw"
    THEN Caught([task EXCEPT !.sinkFailures = @ \cup SinkFailure(outcome)],
                written.completion.error)
    ELSE [task EXCEPT
            !.sinkFailures = @ \cup SinkFailure(outcome),
            !.duration = clock - task.startTime,
            !.emittedAt = Append(@, clock),
            !.pc = "callback"]

Merge(t) ==
    /\ t \in live
    /\ tk[t].pc = "merge"
    /\ \E outcome \in FetchOutcomes :
          LET written == mergeMetadata(tk[t].request.metaCoreUrl,
                                       tk[t].request.cid, tk[t].metadata,
                                       outcome)
          IN  /\ sink' = sink \o SinkRequests(t, written.requests)
              /\ tk' = [tk EXCEPT ![t] = AfterSinkWrite(@, written, outcome, now)]
    /\ UNCHANGED <<server, dav, revision, webdavClient, mimeTypeMappings,
                   now, live, client>>

\* a payload built from a request kept in a module-level variable, which
\* the latest call of process() overwrites
CompletedPayload_sharedRequest(task) ==
    [taskId |-> tk[2].request.taskId, status |-> "completed",
     duration |-> task.duration, metadata |-> task.metadata]

\* lines 149-154 (part_003:175-179 sends no metadata)
CompletedPayload(task) ==
    IF revision = "plugin"
    THEN [taskId |-> task.request.taskId, status |-> "completed",
          duration |-> task.duration, metadata |-> task.metadata]
    ELSE [taskId |-> task.request.taskId, status |-> "completed",
          duration |-> task.duration]

\* lines 149-155: sendCallback is awaited inside the try block, so its
\* rejection is caught by the same catch as the errors of the steps before
AfterCompletedCallback(task, sent) ==
    IF sent.completion.kind = "throw"
    THEN Caught([task EXCEPT !.callbacks = Append(@, CompletedPayload(task)),
                             !.posts = @ \o sent.posts,
                             !.threw = Append(@, TRUE)],
                sent.completion.error)
    ELSE [task EXCEPT
            !.callbacks = Append(@, CompletedPayload(task)),
            !.posts = @ \o sent.posts,
            !.threw = Append(@, FALSE),
            !.promise = "resolved",
            !.pc = "done"]

CallbackCompleted(t) ==
    /\ t \in live
    /\ tk[t].pc = "callback"
    /\ \E sent \in SendCallback(tk[t], CompletedPayload(tk[t])) :
          tk' = [tk EXCEPT ![t] = AfterCompletedCallback(@, sent)]
    /\ UNCHANGED <<server, dav, revision, webdavClient, mimeTypeMappings,
                   now, live, sink, client>>

\* lines 160-165
FailedPayload(task, clock) ==
    [taskId |-> task.request.taskId, status |-> "failed",
     duration |-> clock - task.startTime,
     error |-> ErrorMessage(task.error)]

\* lines 155-166: the catch block; a rejection of this sendCallback rejects
\* the promise of process()
AfterFailedCallback(task, sent, clock) ==
    [task EXCEPT
       !.callbacks = Append(@, FailedPayload(task, clock)),
       !.posts = @ \o sent.posts,
       !.duration = clock - task.startTime,
       !.emittedAt = Append(@, clock),
       !.threw = Append(@, sent.completion.kind = "throw"),
       !.promise = IF sent.completion.kind = "throw" THEN "rejected"
                   ELSE "resolved",
       !.pc = "done"]

Catch(t) ==
    /\ t \in live
    /\ tk[t].pc = "catch"
    /\ \E sent \in SendCallback(tk[t], FailedPayload(tk[t], now)) :
          tk' = [tk EXCEPT ![t] = AfterFailedCallback(@, sent, now)]
    /\ UNCHANGED <<server, dav, revision, webdavClient, mimeTypeMappings,
                   now, live, sink, client>>

\* Date.now() advances while a task waits
Tick ==
    /\ now < MaxClock
    /\ \E t \in live : tk[t].pc \notin {"idle", "done"}
    /\ now' = now + 1
    /\ UNCHANGED <<server, dav, revision, webdavClient, mimeTypeMappings,
                  live, tk, sink, client>>

\* Date.now() is the wall clock: the system time is set back while a task
\* waits
ClockSetBack ==
    /\ now > 0
    /\ \E t \in live : tk[t].pc \notin {"idle", "done"}
    /\ now' = now - 1
    /\ UNCHANGED <<server, dav, revision, webdavClient, mimeTypeMappings,
                  live, tk, sink, client>>

-----------------------------------------------------------------------------
(* Remote access: class WebDAVClient of src/src/webdav-client.ts *)

\* Response.ok
ResponseOk(status) == status \in 200..299

StatusText(status) ==
    CASE status = 200 -> "OK"
      [] status = 204 -> "No Content"
      [] status = 206 -> "Partial Content"
      [] status = 404 -> "Not Found"
      [] OTHER        -> "Error"

\* what the HEAD request can end with: a response for a file of some
\* length, with a Content-Length header stating it or without the header
\* (headers.get returns null), a 404, or a network error
HeadOutcomes ==
    {[kind |-> "response", status |-> 200, length |-> n,
      contentLength |-> IF stated THEN Str(String(n)) ELSE null,
      error |-> ""] :
        n \in Sizes, stated \in BOOLEAN}
    \cup {[kind |-> "response", status |-> 404, length |-> 0,
           contentLength |-> null, error |-> ""],
          [kind |-> "throw", status |-> 0, length |-> 0,
           contentLength |-> null, error |-> "fetch failed"]}

\* what the Range GET can end with; magic is the signature its body carries
GetOutcomes ==
    {[kind |-> "response", status |-> 206, magic |-> m, error |-> ""] :
        m \in SniffMimes \cup {"none"}}
    \cup {[kind |-> "response", status |-> 200, magic |-> "none", error |-> ""],
          [kind |-> "response", status |-> 204, magic |-> "none", error |-> ""],
          [kind |-> "response", status |-> 404, magic |-> "none", error |-> ""],
          [kind |-> "throw", status |-> 0, magic |-> "none",
           error |-> "fetch failed"]}

\* lines 48-64
WebDAVClient_stat(filePath, outcome) ==
    IF outcome.kind = "throw" THEN Throw(Error(outcome.error))
    ELSE IF ~ResponseOk(outcome.status)
    THEN Throw(Error("WebDAV HEAD failed for " \o filePath \o ": "
                     \o ToString(outcome.status) \o " "
                     \o StatusText(outcome.status)))
    ELSE Return([size |-> IF Truthy(outcome.contentLength)
                          THEN parseInt(outcome.contentLength.val)
                          ELSE 0])

\* lines 70-86
WebDAVClient_readBytes(filePath, start, end, outcome) ==
    IF outcome.kind = "throw" THEN Throw(Error(outcome.error))
    ELSE IF ~ResponseOk(outcome.status) /\ outcome.status # 206
    THEN Throw(Error("WebDAV Range GET failed for " \o filePath \o ": "
                     \o ToString(outcome.status) \o " "
                     \o StatusText(outcome.status)))
    ELSE Return([magic |-> outcome.magic])

\* (await fileTypeFromBuffer(buffer))?.mime
fileTypeFromBuffer(buffer) ==
    IF buffer.magic \in SniffMimes THEN Str(buffer.magic) ELSE undefined

-----------------------------------------------------------------------------
(* process() of src/unnamed/part_003 *)

\* part_003:40-50
getMimeTypeViaWebDAV(filePath, outcome) ==
    LET read == WebDAVClient_readBytes(filePath, 0, 4095, outcome)
    IN  IF read.kind = "throw" THEN Return(undefined)
        ELSE Return(fileTypeFromBuffer(read.value))

\* part_003:55-68: the category of the sniffed MIME type when the library's
\* table has one, else the category of the extension
getFileTypeViaWebDAV(table, filePath, outcome) ==
    LET mimeType == getMimeTypeViaWebDAV(filePath, outcome).value
        extensionType == FileType_getFileTypeFromExtension(filePath)
        mimeBasedType == IF Truthy(mimeType) THEN table[mimeType.val]
                         ELSE undefined
    IN  IF /\ Truthy(mimeType)
           /\ Truthy(mimeBasedType)
           /\ mimeBasedType # Str("undefined")
        THEN mimeBasedType
        ELSE extensionType

\* fileType.getFileType(filePath) of the library: a category, nothing, or an
\* error of the file access it makes
LibGetFileTypeOutcomes(filePath) ==
    {Return(FileType_getFileTypeFromExtension(filePath)),
     Return(Str("document")), Return(undefined),
     Throw(Error("ENOENT: no such file or directory, open '"
                 \o filePath \o "'"))}

\* fileType.getMimeTypeFromFile(filePath) of the library
LibGetMimeTypeOutcomes(filePath) ==
    {Return(Str(m)) : m \in SniffMimes}
    \cup {Return(undefined),
          Throw(Error("ENOENT: no such file or directory, open '"
                      \o filePath \o "'"))}

\* part_003:160-169, the order of the setProperty calls
PropertyOrder == <<"fileType", "mimeType", "sizeByte", "fileName", "extension">>

PropertyValue(task, key) ==
    CASE key = "fileType"  -> task.fileType
      [] key = "mimeType"  -> task.mimeType
      [] key = "sizeByte"  -> Str(String(task.size))
      [] key = "fileName"  -> Str(task.fileName)
      [] key = "extension" -> Str(task.extension)

\* fileType and mimeType are written only when truthy
IsWritten(task, key) ==
    key \in {"fileType", "mimeType"} => Truthy(PropertyValue(task, key))

\* the next setProperty call after position i, 0 when there is none
NextProperty(task, i) ==
    LET later == {j \in (i + 1)..Len(PropertyOrder) :
                     IsWritten(task, PropertyOrder[j])}
    IN  IF later = {} THEN 0
        ELSE CHOOSE j \in later : \A k \in later : j <= k

\* the classification is over: on to the first setProperty
ToPersist(task) ==
    [task EXCEPT !.pc = "persist", !.setKey = NextProperty(task, 0)]

\* part_003:134-136
AfterWebDAVStat(task, completion) ==
    IF completion.kind = "throw"
    THEN Caught([task EXCEPT !.statResult = "failed"], completion.error)
    ELSE [task EXCEPT !.statResult = "ok", !.size = completion.value.size,
                      !.pc = "w_mime"]

WebDAVStat(t) ==
    /\ t \in live
    /\ tk[t].pc = "w_stat"
    /\ \E outcome \in HeadOutcomes :
          tk' = [tk EXCEPT ![t] =
                   StatOf(AfterWebDAVStat(
                              tk[t], WebDAVClient_stat(tk[t].request.filePath,
                                                       outcome)),
                          outcome.length)]
    /\ UNCHANGED <<server, dav, revision, webdavClient, mimeTypeMappings,
                   now, live, sink, client>>

\* part_003:138-139
AfterWebDAVMime(task, completion) ==
    IF completion.kind = "throw"
    THEN Caught(task, completion.error)
    ELSE [task EXCEPT !.sniffs = Append(@, SniffRecord(completion)),
                      !.mimeType = completion.value,
                      !.pc = "w_type"]

WebDAVMime(t) ==
    /\ t \in live
    /\ tk[t].pc = "w_mime"
    /\ \E outcome \in GetOutcomes :
          tk' = [tk EXCEPT ![t] =
                   AfterWebDAVMime(@, getMimeTypeViaWebDAV(@.request.filePath,
                                                           outcome))]
    /\ UNCHANGED <<server, dav, revision, webdavClient, mimeTypeMappings,
                   now, live, sink, client>>

\* part_003:141-142: a second Range GET, then the category
AfterWebDAVType(task, table, outcome) ==
    ToPersist(
      [task EXCEPT
         !.sniffs = Append(@, SniffRecord(
                        getMimeTypeViaWebDAV(task.request.filePath, outcome))),
         !.fileType = getFileTypeViaWebDAV(table, task.request.filePath,
                                           outcome)])

WebDAVType(t) ==
    /\ t \in live
    /\ tk[t].pc = "w_type"
    /\ \E outcome \in GetOutcomes :
          tk' = [tk EXCEPT ![t] =
                   AfterWebDAVType(tk[t], mimeTypeMappings, outcome)]
    /\ UNCHANGED <<server, dav, revision, webdavClient, mimeTypeMappings,
                   now, live, sink, client>>

\* part_003:149-150
FsType(t) ==
    /\ t \in live
    /\ tk[t].pc = "f_type"
    /\ \E completion \in LibGetFileTypeOutcomes(tk[t].request.filePath) :
          tk' = [tk EXCEPT ![t] =
                   IF completion.kind = "throw"
                   THEN Caught(@, completion.error)
                   ELSE [@ EXCEPT !.fileType = completion.value,
                                  !.pc = "f_mime"]]
    /\ UNCHANGED <<server, dav, revision, webdavClient, mimeTypeMappings,
                   now, live, sink, client>>

\* part_003:152-153
FsMime(t) ==
    /\ t \in live
    /\ tk[t].pc = "f_mime"
    /\ \E completion \in LibGetMimeTypeOutcomes(tk[t].request.filePath) :
          tk' = [tk EXCEPT ![t] =
                   IF completion.kind = "throw"
                   THEN Caught(@, completion.error)
                   ELSE [@ EXCEPT
                           !.sniffs = Append(@, SniffRecord(completion)),
                           !.mimeType = completion.value,
                           !.pc = "f_stat"]]
    /\ UNCHANGED <<server, dav, revision, webdavClient, mimeTypeMappings,
                   now, live, sink, client>>

\* part_003:155-157
AfterFsStat(task, completion) ==
    IF completion.kind = "throw"
    THEN Caught([task EXCEPT !.statResult = "failed"], completion.error)
    ELSE ToPersist([task EXCEPT !.statResult = "ok",
                                !.size = completion.value.size])

FsStat(t) ==
    /\ t \in live
    /\ tk[t].pc = "f_stat"
    /\ \E completion \in FsStatOutcomes(tk[t].request.filePath) :
          tk' = [tk EXCEPT ![t] =
                   StatOf(AfterFsStat(tk[t], completion),
                          FileLength(completion))]
    /\ UNCHANGED <<server, dav, revision, webdavClient, mimeTypeMappings,
                   now, live, sink, client>>

\* part_003:160-173: one setProperty returned; the next one, or the duration
AfterSetProperty(task, written, outcome, clock) ==
    IF written.completion.kind = "throw"
    THEN Caught([task EXCEPT !.sinkFailures = @ \cup SinkFailure(outcome)],
                written.completion.error)
    ELSE IF NextProperty(task, task.setKey) = 0
    THEN [task EXCEPT
            !.sinkFailures = @ \cup SinkFailure(outcome),
            !.duration = clock - task.startTime,
            !.emittedAt = Append(@, clock),
            !.pc = "callback"]
    ELSE [task EXCEPT
            !.sinkFailures = @ \cup SinkFailure(outcome),
            !.setKey = NextProperty(task, task.setKey)]

PutProperty(t) ==
    /\ t \in live
    /\ tk[t].pc = "persist"
    /\ \E outcome \in FetchOutcomes :
          LET key == PropertyOrder[tk[t].setKey]
              written == setProperty(tk[t].request.metaCoreUrl,
                                     tk[t].request.cid, key,
                                     PropertyValue(tk[t], key).val, outcome)
          IN  /\ sink' = sink \o SinkRequests(t, written.requests)
              /\ tk' = [tk EXCEPT ![t] =
                          AfterSetProperty(@, written, outcome, now)]
    /\ UNCHANGED <<server, dav, revision, webdavClient, mimeTypeMappings,
                   now, live, client>>

-----------------------------------------------------------------------------
(* Path translation: WebDAVClient.toWebDAVUrl of src/src/webdav-client.ts *)

\* String.prototype.startsWith, substring(n) and replace(/\/$/, '')
startsWith(s, prefix) ==
    Len(s) >= Len(prefix) /\ SubSeq(s, 1, Len(prefix)) = prefix

substring(s, n) == IF n >= Len(s) THEN "" ELSE SubSeq(s, n + 1, Len(s))

RemoveTrailingSlash(s) ==
    IF Len(s) > 0 /\ SubSeq(s, Len(s), Len(s)) = "/"
    THEN SubSeq(s, 1, Len(s) - 1) ELSE s

\* lines 17-20: the constructor removes one trailing slash
WebDAVClient_new(baseUrl) == [baseUrl |-> RemoveTrailingSlash(baseUrl)]

\* lines 25-43
toWebDAVUrl(this, filePath) ==
    LET stripped == IF startsWith(filePath, "/files/")
                    THEN substring(filePath, 6)
                    ELSE IF startsWith(filePath, "/files")
                    THEN substring(filePath, 6)
                    ELSE filePath
        relativePath == IF ~startsWith(stripped, "/") THEN "/" \o stripped
                        ELSE stripped
    IN  this.baseUrl \o relativePath

\* the values of WEBDAV_URL and the paths the translation is checked on
BaseUrls ==
    {"http://meta-sort/webdav", "http://meta-sort/webdav/",
     "http://meta-sort/webdav//"}

DavPaths ==
    {"/files/watch/movie.mkv", "/watch/movie.mkv", "watch/movie.mkv",
     "/files", "/files/", "files/a.txt"}

NoDav == [given |-> "", client |-> [baseUrl |-> ""], calls |-> << >>]

\* createWebDAVClient with WEBDAV_URL = baseUrl (lines 180-186)
DavConstruct ==
    /\ dav = NoDav
    /\ \E baseUrl \in BaseUrls :
          dav' = [dav EXCEPT !.given = baseUrl,
                             !.client = WebDAVClient_new(baseUrl)]
    /\ UNCHANGED <<server, revision, webdavClient, mimeTypeMappings, now, live,
                   tk, sink, client>>

\* one call of toWebDAVUrl on the client
DavTranslate ==
    /\ dav # NoDav
    /\ Len(dav.calls) < MaxCalls
    /\ \E filePath \in DavPaths :
          dav' = [dav EXCEPT !.calls =
                     Append(@, [filePath |-> filePath,
                                url |-> toWebDAVUrl(dav.client, filePath)])]
    /\ UNCHANGED <<server, revision, webdavClient, mimeTypeMappings, now, live,
                   tk, sink, client>>

\* the files the client is asked about
DavFiles == {"/files/watch/movie.mkv", "watch/movie.mkv"}

\* one call of stat on the client, with what the HEAD request ended with
DavStat ==
    /\ dav # NoDav
    /\ Len(dav.calls) < MaxCalls
    /\ \E filePath \in DavFiles, outcome \in HeadOutcomes :
          dav' = [dav EXCEPT !.calls =
                     Append(@, [op |-> "stat", filePath |-> filePath,
                                outcome |-> outcome,
                                completion |->
                                    WebDAVClient_stat(filePath, outcome)])]
    /\ UNCHANGED <<server, revision, webdavClient, mimeTypeMappings, now, live,
                   tk, sink, client>>

\* one call of readBytes on the client, as getMimeTypeViaWebDAV makes it
\* (part_003:42), with what the Range GET ended with
DavReadBytes ==
    /\ dav # NoDav
    /\ Len(dav.calls) < MaxCalls
    /\ \E filePath \in DavFiles, outcome \in GetOutcomes :
          dav' = [dav EXCEPT !.calls =
                     Append(@, [op |-> "readBytes", filePath |-> filePath,
                                outcome |-> outcome,
                                completion |->
                                    WebDAVClient_readBytes(filePath, 0, 4095,
                                                           outcome)])]
    /\ UNCHANGED <<server, revision, webdavClient, mimeTypeMappings, now, live,
                   tk, sink, client>>

-----------------------------------------------------------------------------
(* The dispatch shell: src/src/index.ts *)

\* one entry of manifest.schema
SchemaField(label, type) == [label |-> label, type |-> type, readonly |-> TRUE]

\* plugin.ts:27-57 and part_003:81-107
ManifestSchema(rev) ==
    LET common ==
          [fileType  |-> SchemaField("File Type", "string"),
           mimeType  |-> SchemaField("MIME Type", "string"),
           sizeByte  |-> SchemaField("Size (bytes)", "number"),
           fileName  |-> SchemaField("File Name", "string"),
           extension |-> SchemaField("Extension", "string")]
    IN  IF rev = "plugin"
        THEN [k \in DOMAIN common \cup {"privateFilePath"} |->
                IF k = "privateFilePath"
                THEN SchemaField("Original File Path", "string")
                ELSE common[k]]
        ELSE common

\* the config object a /configure request can carry
NoConfig == [k \in {} |-> ""]

\* plugin.ts:15-60 and part_003:70-109: export const manifest
Manifest(rev) ==
    [id |-> "file-info",
     name |-> "File Information",
     version |-> "1.0.0",
     dependencies |-> << >>,
     priority |-> 10,
     defaultQueue |-> "fast",
     timeout |-> 30000,
     schema |-> ManifestSchema(rev),
     config |-> NoConfig]

\* a JSON reply of the server; code 500 is Fastify's reply to a handler that
\* threw
Reply(code, status, error) ==
    [code |-> code, status |-> status, error |-> error]

NoReply == Reply(0, "", "")

\* the fields POST /process requires (index.ts:65-67)
RequiredFields == {"taskId", "cid", "filePath", "callbackUrl", "metaCoreUrl"}

\* a request body: Fastify leaves request.body undefined when the request
\* carries none
NoFields == [k \in RequiredFields |-> undefined]
AbsentBody == [present |-> FALSE, fields |-> NoFields]
Body(fields) == [present |-> TRUE, fields |-> fields]

\* the body of a well-formed request
BodyOf(request) == Body([k \in RequiredFields |-> Str(request[k])])

\* the ProcessRequest the processor receives
RequestFrom(body) == [k \in RequiredFields |-> body.fields[k].val]

\* the /process handler that answers only once process() has settled
ProcessHandler_awaits(body) ==
    IF ~body.present
    THEN [reply |-> Reply(500, "", "Cannot destructure property 'taskId'"),
          started |-> FALSE]
    ELSE IF \E k \in RequiredFields : ~Truthy(body.fields[k])
    THEN [reply |-> Reply(200, "rejected", "Missing required fields"),
          started |-> FALSE]
    ELSE [reply |-> NoReply, started |-> TRUE]

\* index.ts:64-86: what the /process handler answers and whether it called
\* processFile.  Destructuring an undefined body throws before the check
\* of line 67; the check is !field for each of the five fields.
ProcessHandler(body) ==
    IF ~body.present
    THEN [reply |-> Reply(500, "", "Cannot destructure property 'taskId'"),
          started |-> FALSE]
    ELSE IF \E k \in RequiredFields : ~Truthy(body.fields[k])
    THEN [reply |-> Reply(200, "rejected", "Missing required fields"),
          started |-> FALSE]
    ELSE [reply |-> Reply(200, "accepted", ""), started |-> TRUE]

\* the task process() runs for a request the shell accepted
ShellTask(request) == [NewTask(request) EXCEPT !.shell = TRUE]

\* POST /process, request number t with this body: the handler runs
\* process() up to its first await and replies in the same turn
PostProcess(t, body) ==
    /\ server.replies[t] = NoReply
    /\ tk[t].pc = "idle"
    /\ LET handled == ProcessHandler(body)
       IN  /\ server' = [server EXCEPT !.bodies[t] = body,
                                       !.replies[t] = handled.reply]
           /\ IF handled.started
              THEN /\ live' = live \cup {t}
                   /\ tk' = [tk EXCEPT ![t] =
                               Started(ShellTask(RequestFrom(body)), now)]
              ELSE UNCHANGED <<live, tk>>
    /\ UNCHANGED <<dav, revision, webdavClient, mimeTypeMappings, now, sink,
                   client>>

\* the /configure handler that stores the config in the manifest
ConfigureHandler_writesManifest(state, body) ==
    IF ~body.present
    THEN [state EXCEPT
            !.configReply =
                Reply(200, "error", "Cannot read properties of undefined")]
    ELSE [state EXCEPT !.manifest.config = body.config,
                       !.configReply = Reply(200, "ok", "")]

\* index.ts:53-61: pluginConfig = request.body.config || {}; reading config
\* of an undefined body throws inside the try
ConfigureHandler(state, body) ==
    IF ~body.present
    THEN [state EXCEPT
            !.configReply =
                Reply(200, "error", "Cannot read properties of undefined")]
    ELSE [state EXCEPT !.pluginConfig = body.config,
                       !.configReply = Reply(200, "ok", "")]

\* the bodies POST /configure is called with; a missing config reads as {}
ConfigureBodies ==
    {[present |-> FALSE, config |-> NoConfig],
     [present |-> TRUE, config |-> NoConfig],
     [present |-> TRUE, config |-> [id |-> "injected"]]}

PostConfigure ==
    /\ \E body \in ConfigureBodies : server' = ConfigureHandler(server, body)
    /\ UNCHANGED <<dav, revision, webdavClient, mimeTypeMappings, now, live, tk,
                   sink, client>>

\* index.ts:49-50: GET /manifest answers the manifest object
GetManifest ==
    /\ server' = [server EXCEPT !.manifestReplies = @ \cup {server.manifest}]
    /\ UNCHANGED <<dav, revision, webdavClient, mimeTypeMappings, now, live, tk,
                   sink, client>>

\* the server after the module of the revision is loaded (index.ts:36-40)
ServerInit(rev) ==
    [ready |-> FALSE,
     pluginConfig |-> NoConfig,
     manifest |-> Manifest(rev),
     manifestReplies |-> {},
     configReply |-> NoReply,
     bodies |-> [t \in TaskIds |-> AbsentBody],
     replies |-> [t \in TaskIds |-> NoReply],
     listen |-> "pending", sigterm |-> FALSE, exited |-> FALSE,
     health |-> {}]

-----------------------------------------------------------------------------
(* The task processor called directly, as the tests of part_001 call it *)

Init ==
    /\ revision \in {"plugin", "legacy"}
    /\ webdavClient \in IF revision = "legacy" THEN BOOLEAN ELSE {FALSE}
    /\ mimeTypeMappings \in IF webdavClient THEN MimeTables ELSE {NoMimeTable}
    /\ now = 0
    /\ live = {1}
    /\ \E filePath \in Paths :
          tk = [t \in TaskIds |->
                  IF t = 1 THEN NewTask(RequestOf(t, filePath)) ELSE IdleTask]
    /\ sink = << >>
    /\ client = << >>
    /\ server = ServerInit(revision)
    /\ dav = NoDav

\* the steps of process() of plugin.ts after its first await
PluginAwait(t) ==
    \/ Stat(t)
    \/ Sniff(t)
    \/ Merge(t)
    \/ CallbackCompleted(t)
    \/ Catch(t)

\* the steps of process() after its first await, whichever revision runs
Await(t) ==
    \/ PluginAwait(t)
    \/ WebDAVStat(t)
    \/ WebDAVMime(t)
    \/ WebDAVType(t)
    \/ FsType(t)
    \/ FsMime(t)
    \/ FsStat(t)
    \/ PutProperty(t)

Step(t) ==
    \/ Start(t)
    \/ Await(t)

Next ==
    \/ \E t \in TaskIds : Step(t)
    \/ Tick
    \/ ClockSetBack

Spec == Init /\ [][Next]_vars

-----------------------------------------------------------------------------
(* The MetaCoreClient called on its own: each write method, for each result *)
(* of the HTTP call                                                         *)

ClientBaseUrl == "http://meta-core:9000"
ClientKeys == {"fileType", "tags"}

ClientCalled(method, written, outcome) ==
    /\ client' = Append(client, [method |-> method, outcome |-> outcome,
                                 completion |-> written.completion,
                                 requests |-> Len(written.requests)])
    /\ sink' = sink \o SinkRequests(0, written.requests)
    /\ UNCHANGED <<server, dav, revision, webdavClient, mimeTypeMappings,
                   now, live, tk>>

ClientSetProperty ==
    /\ Len(client) < MaxCalls
    /\ \E key \in ClientKeys, outcome \in FetchOutcomes :
          ClientCalled("setProperty",
                       setProperty(ClientBaseUrl, "cid-1", key, "video", outcome),
                       outcome)

ClientMergeMetadata ==
    /\ Len(client) < MaxCalls
    /\ \E outcome \in FetchOutcomes :
          ClientCalled("mergeMetadata",
                       mergeMetadata(ClientBaseUrl, "cid-1",
                                     [fileType |-> Str("video"),
                                      mimeType |-> Str("video/x-matroska")],
                                     outcome),
                       outcome)

ClientDeleteProperty ==
    /\ Len(client) < MaxCalls
    /\ \E key \in ClientKeys, outcome \in FetchOutcomes :
          ClientCalled("deleteProperty",
                       deleteProperty(ClientBaseUrl, "cid-1", key, outcome),
                       outcome)

ClientAddToSet ==
    /\ Len(client) < MaxCalls
    /\ \E key \in ClientKeys, outcome \in FetchOutcomes :
          ClientCalled("addToSet",
                       addToSet(ClientBaseUrl, "cid-1", key, "video", outcome),
                       outcome)

InitClient ==
    /\ revision = "plugin"
    /\ webdavClient = FALSE
    /\ mimeTypeMappings = NoMimeTable
    /\ now = 0
    /\ live = {}
    /\ tk = [t \in TaskIds |-> IdleTask]
    /\ sink = << >>
    /\ client = << >>
    /\ server = ServerInit(revision)
    /\ dav = NoDav

NextClient ==
    \/ ClientSetProperty
    \/ ClientMergeMetadata
    \/ ClientDeleteProperty
    \/ ClientAddToSet

SpecClient == InitClient /\ [][NextClient]_vars

-----------------------------------------------------------------------------
(* The server of index.ts: one POST /process with any body, and the other  *)
(* routes at any time                                                      *)

ShellPaths == {"/files/watch/movie.mkv", "/tmp/a.constructor"}

\* each required field missing, empty or given, and the request without body
ProcessBodies ==
    {AbsentBody}
    \cup {Body([k \in RequiredFields |->
                  CASE c[k] = "missing" -> undefined
                    [] c[k] = "empty"   -> Str("")
                    [] OTHER            -> Str(RequestOf(1, filePath)[k])]) :
             c \in [RequiredFields -> {"missing", "empty", "given"}],
             filePath \in ShellPaths}

InitShell ==
    /\ revision \in {"plugin", "legacy"}
    /\ webdavClient \in IF revision = "legacy" THEN BOOLEAN ELSE {FALSE}
    /\ mimeTypeMappings \in IF webdavClient THEN MimeTables ELSE {NoMimeTable}
    /\ now = 0
    /\ live = {}
    /\ tk = [t \in TaskIds |-> IdleTask]
    /\ sink = << >>
    /\ client = << >>
    /\ server = ServerInit(revision)
    /\ dav = NoDav

NextShell ==
    \/ \E body \in ProcessBodies : PostProcess(1, body)
    \/ PostConfigure
    \/ GetManifest
    \/ \E t \in TaskIds : Await(t)

SpecShell == InitShell /\ [][NextShell]_vars

\* The same server with only the /process route called.  The event loop
\* runs every continuation whose I/O call has settled, and every I/O call
\* settles: a step of process() that can be taken is taken.
NextAccept ==
    \/ \E body \in ProcessBodies : PostProcess(1, body)
    \/ \E t \in TaskIds : Await(t)

SpecShellFair ==
    InitShell /\ [][NextAccept]_vars /\ \A t \in TaskIds : WF_vars(Await(t))

-----------------------------------------------------------------------------
(* The lifecycle of the server: index.ts:88-102 *)

\* index.ts:92-95: the promise of app.listen resolves and its continuation
\* runs; nothing in the continuation or in the SIGTERM handler orders the two
Listening ==
    /\ server.listen = "pending"
    /\ ~server.exited
    /\ server' = [server EXCEPT !.listen = "resolved", !.ready = TRUE]
    /\ UNCHANGED <<dav, revision, webdavClient, mimeTypeMappings, now, live, tk,
                   sink, client>>

\* index.ts:98-100: the SIGTERM handler up to its await of app.close()
Sigterm ==
    /\ ~server.exited
    /\ server' = [server EXCEPT !.sigterm = TRUE, !.ready = FALSE]
    /\ UNCHANGED <<dav, revision, webdavClient, mimeTypeMappings, now, live, tk,
                   sink, client>>

\* index.ts:100-101: app.close() has settled; process.exit(0)
Exit ==
    /\ server.sigterm
    /\ ~server.exited
    /\ server' = [server EXCEPT !.exited = TRUE]
    /\ UNCHANGED <<dav, revision, webdavClient, mimeTypeMappings, now, live, tk,
                   sink, client>>

\* requests reach the handlers once the server listens and until the
\* process exits
Serving == server.listen = "resolved" /\ ~server.exited

\* index.ts:43-47: GET /health
GetHealth ==
    /\ Serving
    /\ server' = [server EXCEPT
                    !.health = @ \cup {[status |-> "healthy",
                                        ready |-> server.ready,
                                        version |-> server.manifest.version]}]
    /\ UNCHANGED <<dav, revision, webdavClient, mimeTypeMappings, now, live, tk,
                   sink, client>>

NextLife ==
    \/ Listening
    \/ Sigterm
    \/ Exit
    \/ GetHealth
    \/ Serving /\ \E body \in ProcessBodies : PostProcess(1, body)
    \/ ~server.exited /\ \E t \in TaskIds : Await(t)

SpecLife == InitShell /\ [][NextLife]_vars

-----------------------------------------------------------------------------
(* Two requests accepted by the server, processed by plugin.ts in any      *)
(* interleaving                                                            *)

TwoPaths == {"/files/watch/movie.mkv", "/tmp/readme.txt"}

InitTwo ==
    /\ revision = "plugin"
    /\ webdavClient = FALSE
    /\ mimeTypeMappings = NoMimeTable
    /\ now = 0
    /\ live = {}
    /\ tk = [t \in TaskIds |-> IdleTask]
    /\ sink = << >>
    /\ client = << >>
    /\ server = ServerInit(revision)
    /\ dav = NoDav

NextTwo ==
    \/ \E t \in TaskIds, filePath \in TwoPaths :
           PostProcess(t, BodyOf(RequestOf(t, filePath)))
    \/ \E t \in TaskIds : PluginAwait(t)

SpecTwo == InitTwo /\ [][NextTwo]_vars

-----------------------------------------------------------------------------
(* A WebDAVClient built from WEBDAV_URL and asked to translate paths *)

InitUrl ==
    /\ revision = "legacy"
    /\ webdavClient = TRUE
    /\ mimeTypeMappings = NoMimeTable
    /\ now = 0
    /\ live = {}
    /\ tk = [t \in TaskIds |-> IdleTask]
    /\ sink = << >>
    /\ client = << >>
    /\ server = ServerInit(revision)
    /\ dav = NoDav

NextUrl ==
    \/ DavConstruct
    \/ DavTranslate

SpecUrl == InitUrl /\ [][NextUrl]_vars

-----------------------------------------------------------------------------
(* A WebDAVClient asked to stat and to read byte ranges *)

NextDav ==
    \/ DavConstruct
    \/ DavStat
    \/ DavReadBytes

SpecDav == InitUrl /\ [][NextDav]_vars

-----------------------------------------------------------------------------
(* Properties *)

\* the sink requests issued for task t
SinkRequestsOf(t) == SelectSeq(sink, LAMBDA r : r.task = t)

\* the statuses of the outcomes sendCallback was invoked with for task t
Statuses(t) == [i \in 1..Len(tk[t].callbacks) |-> tk[t].callbacks[i].status]

HasOutcome(t, status) ==
    \E i \in 1..Len(tk[t].callbacks) : tk[t].callbacks[i].status = status

\* the task ran the local variant of plugin.ts or the remote variant of
\* part_003; the filesystem branch of part_003 classifies inside the
\* FileType library
InSourceVariant == revision = "plugin" \/ webdavClient

\* the FileFacts of the task are complete
Classified(t) == tk[t].pc \in {"merge", "persist", "callback"}
                    \/ (tk[t].pc \in {"catch", "done"} /\ tk[t].callbacks # << >>
                        /\ tk[t].callbacks[1].status = "completed")

FileFactsKeys ==
    {"fileType", "mimeType", "sizeByte", "fileName", "extension", "filePath"}

\* C1: for every call of process, sendCallback is invoked exactly once,
\* whatever the steps and sendCallback itself do: never more than once, and
\* once when process has ended.
C1_CallbackExactlyOnce ==
    \A t \in live :
        /\ Len(tk[t].callbacks) <= 1
        /\ tk[t].pc = "done" => Len(tk[t].callbacks) = 1

\* C2: a task whose stat failed ends with one outcome, 'failed' with a
\* non-empty error, and no request to the sink is ever issued for it.
C2_StatFailureFailsWithoutSinkWrite ==
    \A t \in live :
        tk[t].statResult = "failed" =>
            /\ SinkRequestsOf(t) = << >>
            /\ ~HasOutcome(t, "completed")
            /\ tk[t].pc = "done" =>
                  /\ Len(tk[t].callbacks) = 1
                  /\ tk[t].callbacks[1].status = "failed"
                  /\ tk[t].callbacks[1].error # ""

C2_Witness ==
    \E t \in live :
        /\ tk[t].statResult = "failed"
        /\ tk[t].pc = "done"
        /\ \E p \in Paths :
              tk[t].callbacks[1].error
                  = "ENOENT: no such file or directory, stat '" \o p \o "'"

\* C3: a 'failed' outcome is never emitted for a task for which a sink
\* request was issued, and a sink request is issued only once stat has
\* succeeded and every field is computed.
C3_NoFailedOutcomeAfterSinkWrite ==
    \A t \in live :
        SinkRequestsOf(t) # << >> =>
            /\ ~HasOutcome(t, "failed")
            /\ tk[t].statResult = "ok"
            /\ tk[t].pc \in {"persist", "callback", "catch", "done"}

\* C4: once stat has succeeded the outcome of the task is 'completed'
\* whatever the sink requests end with: the first outcome emitted is
\* 'completed', and no 'failed' outcome carries the error of a sink request.
C4_SinkNeverFailsTask ==
    \A t \in live :
        /\ \A i \in 1..Len(tk[t].callbacks) :
              tk[t].callbacks[i].status = "failed"
                  => tk[t].callbacks[i].error \notin SinkErrors
        /\ tk[t].statResult = "ok" =>
              /\ tk[t].pc \in {"catch", "done"} => tk[t].callbacks # << >>
              /\ tk[t].callbacks # << >>
                    => tk[t].callbacks[1].status = "completed"
              /\ tk[t].pc = "catch"
                    => ErrorMessage(tk[t].error) \notin SinkErrors

C4_Witness ==
    \E t \in live :
        /\ revision = "plugin"
        /\ tk[t].statResult = "ok"
        /\ "TimeoutError" \in tk[t].sinkFailures
        /\ tk[t].pc = "done"
        /\ Statuses(t) = <<"completed">>

\* C5: every write method of the sink client returns normally for every
\* result of the HTTP call and issues exactly one HTTP request per call:
\* nothing is retried and nothing is left queued.
C5_WriteMethodsNeverThrow ==
    /\ \A i \in 1..Len(client) :
          /\ client[i].completion = Return(undefined)
          /\ client[i].requests = 1
    /\ Len(sink) = Len(client)
    /\ \A i \in 1..Len(sink) :
          /\ sink[i].timeout = SinkTimeoutMs
          /\ sink[i].method =
                CASE client[i].method = "setProperty"    -> "PUT"
                  [] client[i].method = "mergeMetadata"  -> "PATCH"
                  [] client[i].method = "deleteProperty" -> "DELETE"
                  [] client[i].method = "addToSet"       -> "POST"

C5_Witness ==
    /\ Len(client) = MaxCalls
    /\ {client[i].method : i \in 1..Len(client)}
          \subseteq {"deleteProperty", "addToSet"}
    /\ \E i \in 1..Len(client) : client[i].outcome.error = "TimeoutError"
    /\ \E i \in 1..Len(client) : client[i].outcome.status = 500

\* C6: a completed task issued exactly one sink request, which carries all
\* six FileFacts fields.
C6_OneSinkRequestWithAllFields ==
    \A t \in live :
        HasOutcome(t, "completed") =>
            /\ Len(SinkRequestsOf(t)) = 1
            /\ DOMAIN SinkRequestsOf(t)[1].body = FileFactsKeys

\* C7: the mimeType of a classified task is the sniffed MIME type when the
\* sniffing yields one, else the lookup by extension, else the sentinel; it
\* is never absent or empty.
C7_MimeTypeResolved ==
    \A t \in live :
        (InSourceVariant /\ Classified(t)) =>
            /\ tk[t].mimeType =
                  IF Truthy(tk[t].sniffs[1].mime) THEN tk[t].sniffs[1].mime
                  ELSE Or(mimeTypeLookup(tk[t].extension), Str(OctetStream))
            /\ Truthy(tk[t].mimeType)

\* C8: the fileType of a classified task is the category of its extension,
\* whatever the sniffing found.
C8_FileTypeFromExtensionOnly ==
    \A t \in live :
        (InSourceVariant /\ Classified(t)) =>
            tk[t].fileType =
                IF revision = "plugin"
                THEN getFileTypeFromExtension(tk[t].extension)
                ELSE FileType_getFileTypeFromExtension(tk[t].request.filePath)

\* C9: getFileTypeFromExtension gives the documented category for a key of
\* the table, 'other' for any other non-empty extension and 'undefined' for
\* the empty one, so the fileType of the FileFacts is always one of the
\* category strings and is present in what is sent to the sink.
C9_FileTypeIsCategory ==
    \A t \in live :
        (revision = "plugin" /\ Classified(t)) =>
            /\ tk[t].fileType =
                  IF tk[t].extension = "" THEN Str("undefined")
                  ELSE IF tk[t].extension \in MappingKeys
                  THEN Str(DocumentedCategory(tk[t].extension))
                  ELSE Str("other")
            /\ tk[t].fileType.type = "string"
            /\ tk[t].fileType.val \in Categories
            /\ "fileType" \in DOMAIN JSONStringify(tk[t].metadata)

\* C10: when the sniffing throws or finds nothing while stat succeeded, the
\* task is not failed by it and its MIME type is the fallback by extension.
C10_SniffFailureFallsBack ==
    \A t \in live :
        (/\ InSourceVariant
         /\ tk[t].statResult = "ok"
         /\ tk[t].sniffs # << >>
         /\ ~Truthy(tk[t].sniffs[1].mime)) =>
            /\ tk[t].pc = "catch" => HasOutcome(t, "completed")
            /\ Classified(t) =>
                  tk[t].mimeType =
                      Or(mimeTypeLookup(tk[t].extension), Str(OctetStream))

-----------------------------------------------------------------------------
(* Outcome records, the dispatch shell and the path translation *)

\* the request body is an object with all five fields truthy
ValidBody(body) ==
    body.present /\ \A k \in RequiredFields : Truthy(body.fields[k])

Accepted == Reply(200, "accepted", "")

\* C11: every outcome carries the taskId of its request and the status
\* completed or failed; a completed outcome carries the metadata that was
\* sent to the sink and no error; a failed outcome carries the message of
\* the error that was caught and no metadata.
C11_OutcomeShape ==
    \A t \in live :
        \A i \in 1..Len(tk[t].callbacks) :
            LET p == tk[t].callbacks[i]
            IN  /\ p.taskId = tk[t].request.taskId
                /\ p.status \in {"completed", "failed"}
                /\ (p.status = "completed") =>
                      /\ "error" \notin DOMAIN p
                      /\ "metadata" \in DOMAIN p
                      /\ \E j \in 1..Len(SinkRequestsOf(t)) :
                            SinkRequestsOf(t)[j].body =
                                JSONStringify(p.metadata)
                /\ (p.status = "failed") =>
                      /\ "metadata" \notin DOMAIN p
                      /\ "error" \in DOMAIN p
                      /\ p.error = ErrorMessage(tk[t].error)

\* C12: a /process request in which a required field is missing or empty
\* is answered 'rejected', and the task processor is not invoked for it: no
\* task state, no sink request, no callback POST.
C12_MissingFieldRejected ==
    \A t \in TaskIds :
        (/\ server.replies[t] # NoReply
         /\ \E k \in RequiredFields : ~Truthy(server.bodies[t].fields[k])) =>
            /\ server.replies[t].status = "rejected"
            /\ tk[t] = IdleTask
            /\ SinkRequestsOf(t) = << >>

\* C13: a /process request with all required fields is answered 'accepted'
\* in the step that starts the task, when no outcome exists yet; the answer
\* never changes afterwards, whatever the task does, and no outcome is
\* emitted for a request that was not answered 'accepted'.
C13_AcceptedWithoutWaiting ==
    [][\A t \in TaskIds :
          /\ (/\ server.replies[t] = NoReply
              /\ server'.replies[t] # NoReply
              /\ ValidBody(server'.bodies[t])) =>
                 /\ server'.replies[t] = Accepted
                 /\ tk'[t].pc \notin {"idle", "done"}
                 /\ tk'[t].callbacks = << >>
                 /\ tk'[t].posts = << >>
          /\ (server.replies[t] = Accepted) => (server'.replies[t] = Accepted)
          /\ (tk'[t] # tk[t] /\ tk[t].pc # "idle") =>
                 (server.replies[t] = Accepted)]_vars

\* a task ended with a failed outcome and with a callback POST that was
\* rejected, after its request was answered 'accepted'
C13_Witness ==
    \E t \in TaskIds :
        /\ server.replies[t] = Accepted
        /\ tk[t].pc = "done"
        /\ HasOutcome(t, "failed")
        /\ tk[t].posts # << >>
        /\ tk[t].posts[1].logged # ""

\* C14: under the dispatch shell at most one POST to the callbackUrl of the
\* request is attempted per task; when that POST is rejected there is no
\* second POST and no second outcome, and the task ends as if the POST had
\* succeeded: process() resolves without entering its catch block again.
C14_AtMostOnePost ==
    \A t \in TaskIds :
        /\ Len(tk[t].posts) <= 1
        /\ Len(tk[t].callbacks) <= 1
        /\ \A i \in 1..Len(tk[t].posts) :
              /\ tk[t].posts[i].url = tk[t].request.callbackUrl
              /\ tk[t].posts[i].body = PayloadJSON(tk[t].callbacks[i])
              /\ (tk[t].posts[i].logged # "") =>
                    /\ tk[t].pc = "done"
                    /\ tk[t].promise = "resolved"

\* the POST of a completed outcome was rejected
C14_Witness ==
    \E t \in TaskIds :
        /\ tk[t].posts # << >>
        /\ tk[t].posts[1].logged = "ECONNREFUSED"
        /\ tk[t].posts[1].body.status = "completed"
        /\ tk[t].pc = "done"

ReportedSize(t) ==
    IF revision = "plugin" THEN tk[t].metadata.sizeByte
    ELSE PropertyValue(tk[t], "sizeByte")

\* C16: for every completed task the sizeByte sent to the sink is the byte
\* length the file had when it was stat-ed, in the local and in the remote
\* variant.
C16_SizeIsFileLength ==
    \A t \in live :
        HasOutcome(t, "completed") =>
            ReportedSize(t) = Str(String(tk[t].fileLength))

\* C17: the manifest has id 'file-info', no dependencies, priority 10 and a
\* schema with fileType, mimeType, sizeByte, fileName and extension, each
\* field read-only; it is the object the module exported, whatever requests
\* were served, and GET /manifest answers it.
C17_ManifestConstant ==
    /\ server.manifest = Manifest(revision)
    /\ server.manifest.id = "file-info"
    /\ server.manifest.dependencies = << >>
    /\ server.manifest.priority = 10
    /\ {"fileType", "mimeType", "sizeByte", "fileName", "extension"}
           \subseteq DOMAIN server.manifest.schema
    /\ \A k \in DOMAIN server.manifest.schema :
           server.manifest.schema[k].readonly
    /\ server.manifestReplies \subseteq {Manifest(revision)}

\* /configure stored a config, a task was accepted and the manifest was
\* served
C17_Witness ==
    /\ server.configReply.status = "ok"
    /\ server.pluginConfig # NoConfig
    /\ server.replies[1] = Accepted
    /\ server.manifestReplies # {}

\* C18: the steps of a task run in the order stat, classification, sink
\* write, outcome: nothing is classified before the stat succeeded, nothing
\* is sent to the sink before the classification, a completed outcome comes
\* after the sink write, and after a failed stat no classification, sink
\* write or completed outcome follows.
C18_StepsInOrder ==
    \A t \in live :
        /\ (tk[t].sniffs # << >> \/ Truthy(tk[t].fileType)) =>
               tk[t].statResult = "ok"
        /\ (SinkRequestsOf(t) # << >>) =>
               (tk[t].statResult = "ok" /\ tk[t].sniffs # << >>)
        /\ HasOutcome(t, "completed") =>
               (SinkRequestsOf(t) # << >> /\ tk[t].pc \in {"catch", "done"})
        /\ (tk[t].statResult = "failed") =>
               /\ tk[t].sniffs = << >>
               /\ SinkRequestsOf(t) = << >>
               /\ ~HasOutcome(t, "completed")

\* the request the server received as request number t
OwnRequest(t) == RequestFrom(server.bodies[t])

\* the FileFacts of a request, from its own path and from what the stat
\* and the sniffing of its own task returned
OwnFacts(request, task) ==
    LET ext == ExtensionOf(request.filePath)
    IN  [fileType |-> getFileTypeFromExtension(ext),
         mimeType |-> IF Truthy(task.sniffs[1].mime) THEN task.sniffs[1].mime
                      ELSE Or(mimeTypeLookup(ext), Str(OctetStream)),
         sizeByte |-> Str(String(task.fileLength)),
         fileName |-> Str(basename(request.filePath)),
         extension |-> Str(ext),
         filePath |-> Str(request.filePath)]

\* C19: with two tasks interleaved in any way, each sink write goes to the
\* metaCoreUrl and cid of its own request with the FileFacts of its own
\* file, and each outcome carries its own taskId and FileFacts and is posted
\* to its own callbackUrl: the same values as when the task runs alone.
C19_TasksIndependent ==
    \A t \in live :
        LET own == OwnRequest(t)
            facts == OwnFacts(own, tk[t])
            written == SinkRequestsOf(t)
        IN  /\ Len(written) <= 1
            /\ \A j \in 1..Len(written) :
                  /\ written[j].url =
                         own.metaCoreUrl \o "/meta/" \o own.cid
                  /\ written[j].body = JSONStringify(facts)
            /\ \A i \in 1..Len(tk[t].callbacks) :
                  /\ tk[t].callbacks[i].taskId = own.taskId
                  /\ (tk[t].callbacks[i].status = "completed") =>
                         (tk[t].callbacks[i].metadata = facts)
                  /\ tk[t].posts[i].url = own.callbackUrl

\* both tasks completed for different files, the second request's sink
\* write made before the first request's
C19_Witness ==
    /\ live = {1, 2}
    /\ \A t \in live : tk[t].pc = "done" /\ HasOutcome(t, "completed")
    /\ OwnRequest(1).filePath # OwnRequest(2).filePath
    /\ Len(sink) = 2
    /\ sink[1].task = 2
    /\ sink[2].task = 1

\* the string without its leading slashes
RECURSIVE TrimLeadingSlashes(_)
TrimLeadingSlashes(s) ==
    IF startsWith(s, "/") THEN TrimLeadingSlashes(substring(s, 1)) ELSE s

\* the string without its trailing slashes
RECURSIVE TrimTrailingSlashes(_)
TrimTrailingSlashes(s) ==
    IF RemoveTrailingSlash(s) # s
    THEN TrimTrailingSlashes(RemoveTrailingSlash(s)) ELSE s

\* the base URL, one slash, and the path after its leading '/files'
ExpectedUrl(baseUrl, filePath) ==
    TrimTrailingSlashes(baseUrl) \o "/"
        \o TrimLeadingSlashes(IF startsWith(filePath, "/files")
                              THEN substring(filePath, 6) ELSE filePath)

\* C20: toWebDAVUrl maps a base URL and a path to the base URL, exactly one
\* slash, and the path with its leading '/files' removed, whether or not
\* the base URL ends with slashes and the path starts with one; the same
\* path always gives the same URL.
C20_OneSeparatingSlash ==
    \A i \in 1..Len(dav.calls) :
        /\ dav.calls[i].url = ExpectedUrl(dav.given, dav.calls[i].filePath)
        /\ \A j \in 1..Len(dav.calls) :
              (dav.calls[j].filePath = dav.calls[i].filePath) =>
                  (dav.calls[j].url = dav.calls[i].url)

\* s occurs somewhere in text
Contains(text, s) ==
    \E i \in 1..(Len(text) - Len(s) + 1) :
        SubSeq(text, i, i + Len(s) - 1) = s

\* C21: a range read succeeds exactly when the HTTP status is 200 or 206 and
\* a stat succeeds exactly when the HEAD status is a success status; on every
\* other status the operation raises an error whose message carries the
\* attempted path and the HTTP status
C21_SuccessStatuses ==
    \A i \in 1..Len(dav.calls) :
        LET call == dav.calls[i]
            answered == call.outcome.kind = "response"
            status == call.outcome.status
            succeeds == call.completion.kind = "return"
            expected == IF call.op = "readBytes" THEN status \in {200, 206}
                        ELSE ResponseOk(status)
        IN  /\ succeeds <=> (answered /\ expected)
            /\ (answered /\ ~expected) =>
                   /\ call.completion.kind = "throw"
                   /\ Contains(ErrorMessage(call.completion.error),
                               call.filePath)
                   /\ Contains(ErrorMessage(call.completion.error),
                               ToString(status))

\* the steps of the remote variant, of the local variant of part_003 and of
\* plugin.ts
RemoteSteps == {"w_stat", "w_mime", "w_type"}
LocalSteps == {"f_type", "f_mime", "f_stat"}
PluginSteps == {"stat", "sniff", "merge"}

\* C22: the access variant is fixed at module initialisation and never
\* changes: no /process, /configure or task step assigns it, and every task
\* takes the steps of the variant chosen at start (remote when the module
\* built a WebDAV client, local otherwise).
C22_VariantFixed ==
    [][/\ webdavClient' = webdavClient
       /\ revision' = revision
       /\ \A t \in TaskIds :
             /\ tk'[t].pc \in RemoteSteps =>
                    revision = "legacy" /\ webdavClient
             /\ tk'[t].pc \in LocalSteps =>
                    revision = "legacy" /\ ~webdavClient
             /\ tk'[t].pc \in PluginSteps => revision = "plugin"]_vars

\* a task runs the local variant after /configure stored a config
C22_Witness ==
    /\ revision = "legacy"
    /\ ~webdavClient
    /\ DOMAIN server.pluginConfig # {}
    /\ \E t \in TaskIds : tk[t].pc \in LocalSteps

\* C23: the duration of every emitted outcome, completed or failed, is
\* greater than or equal to 0 and equals the clock reading at emission minus
\* the clock reading taken at the start of process.
C23_DurationNonNegative ==
    \A t \in live :
        \A i \in 1..Len(tk[t].callbacks) :
            /\ tk[t].callbacks[i].duration >= 0
            /\ tk[t].callbacks[i].duration =
                   tk[t].emittedAt[i] - tk[t].startTime

\* the field names task t wrote to the sink: the properties of the PATCH
\* bodies of plugin.ts, the keys of the setProperty calls of part_003
WrittenKeys(t) ==
    IF revision = "plugin"
    THEN UNION {DOMAIN SinkRequestsOf(t)[i].body :
                    i \in 1..Len(SinkRequestsOf(t))}
    ELSE {PropertyOrder[j] : j \in {i \in 1..Len(PropertyOrder) :
                                       IsWritten(tk[t], PropertyOrder[i])}}

\* C24: the field names a completed task wrote to the sink are exactly the
\* fields declared in the manifest schema.
C24_WrittenKeysAreSchemaKeys ==
    \A t \in live :
        HasOutcome(t, "completed") =>
            WrittenKeys(t) = DOMAIN ManifestSchema(revision)

\* C25: for a fixed base URL toWebDAVUrl is injective: two different local
\* paths never map to the same remote URL.
C25_TranslationInjective ==
    \A i, j \in 1..Len(dav.calls) :
        dav.calls[i].filePath # dav.calls[j].filePath =>
            dav.calls[i].url # dav.calls[j].url

\* C26: in the remote variant a task performs one prefix read, and the
\* mimeType it writes and the MIME type its fileType is derived from are the
\* same sniffing result.
C26_OneSniffForBothFields ==
    \A t \in live :
        (revision = "legacy" /\ webdavClient) =>
            /\ Len(tk[t].sniffs) <= 1
            /\ \A i, j \in 1..Len(tk[t].sniffs) :
                   tk[t].sniffs[i].mime = tk[t].sniffs[j].mime

\* C27: the promise of process rejects only by a throw of sendCallback while
\* the failed outcome is delivered: it is never rejected while sendCallback
\* has not thrown, and every error raised by a step of an ended task was
\* turned into a failed outcome.
C27_RejectsOnlyByFailedDelivery ==
    \A t \in live :
        LET task == tk[t]
            n == Len(task.callbacks)
        IN  /\ task.promise = "rejected" =>
                   /\ task.pc = "done"
                   /\ n > 0
                   /\ task.callbacks[n].status = "failed"
                   /\ task.threw[n]
            /\ (\A i \in 1..Len(task.threw) : ~task.threw[i]) =>
                   task.promise # "rejected"
            /\ (task.pc = "done" /\ task.error # Error("")) =>
                   HasOutcome(t, "failed")

\* a stat failed, the failed outcome was delivered and the promise resolved
C27_Witness ==
    \E t \in live :
        /\ tk[t].pc = "done"
        /\ tk[t].statResult = "failed"
        /\ tk[t].promise = "resolved"
        /\ Statuses(t) = <<"failed">>
        /\ tk[t].threw = <<FALSE>>

\* C28: the readiness flag is false until the server listens, becomes true
\* exactly when listening starts, becomes false on SIGTERM before the server
\* closes and never returns to true afterwards; /health reports the flag,
\* and /process answers by its body alone, whatever the flag is.
C28_ReadyLifecycle ==
    [][/\ server.listen = "pending" => ~server.ready
       /\ (~server.ready /\ server'.ready) =>
              (server.listen = "pending" /\ server'.listen = "resolved")
       /\ (~server.sigterm /\ server'.sigterm) =>
              (~server'.ready /\ ~server'.exited)
       /\ server.sigterm => ~server'.ready
       /\ server'.health # server.health =>
              \E h \in server'.health : h.ready = server.ready
       /\ server'.replies[1] # server.replies[1] =>
              server'.replies[1] = ProcessHandler(server'.bodies[1]).reply
      ]_vars

=============================================================================
